---------------------------- MODULE Spec2Model ----------------------------
(***************************************************************************)
(* QConvert: a PySide6 front end that converts documents by running the    *)
(* external tool pandoc in a background QThread (src/QConvert.py).         *)
(*                                                                         *)
(* Text is a sequence of string fragments.  Data that the code processes   *)
(* character by character (paths, file names, format tags) holds one       *)
(* character per fragment; literals of the code are single fragments.      *)
(* Bytes (the captured streams of the process) are sequences of numbers.   *)
(***************************************************************************)
EXTENDS Integers, Sequences, FiniteSets, TLC

\* ------------------------------------------------------------------ bounds
\* Number of ConversionThread objects created in one behaviour.
MaxJobs == 2
\* Longest captured stdout / stderr of a process, in bytes.
MaxBytes == 2

\* --------------------------------------------------------------- vocabulary
EPUB == <<"e", "p", "u", "b">>
DOCX == <<"d", "o", "c", "x">>
MD == <<"m", "d">>
HTML == <<"h", "t", "m", "l">>
TXT == <<"t", "x", "t">>
PDF == <<"p", "d", "f">>

SUPPORTED_INPUT_FORMATS == <<EPUB, DOCX, MD, HTML, TXT>>
SUPPORTED_OUTPUT_FORMATS == <<PDF, DOCX, HTML, MD, TXT>>
SUPPORTED_PDF_ENGINES == << <<"pdflatex">>, <<"xelatex">>, <<"lualatex">> >>

Range(s) == {s[i] : i \in 1..Len(s)}

\* An attribute that was never assigned (hasattr(self, ...) is False).
NoAttr == <<"<no attribute>">>

\* F(x), with x evaluated once: TLC evaluates the element of a set constructor
\* before it binds it, where it would evaluate an argument at each use.
Once(F(_), x) == CHOOSE r \in {F(v) : v \in {x}} : TRUE

\* ------------------------------------------------------------ str methods
LowerChar(c) ==
  CASE c = "A" -> "a" [] c = "B" -> "b" [] c = "D" -> "d" [] c = "M" -> "m"
    [] c = "T" -> "t" [] c = "X" -> "x" [] OTHER -> c

\* str.lower()
Lower(s) == [i \in 1..Len(s) |-> LowerChar(s[i])]

\* str.endswith(suffix)
EndsWith(s, suffix) ==
  /\ Len(s) >= Len(suffix)
  /\ SubSeq(s, Len(s) - Len(suffix) + 1, Len(s)) = suffix

\* str.split(sep) for a one-character separator: never an empty list.
\* parts are the pieces completed so far, piece the one being read.
RECURSIVE SplitFrom(_, _, _, _)
SplitFrom(s, sep, parts, piece) ==
  IF s = <<>> THEN Append(parts, piece)
  ELSE IF Head(s) = sep THEN SplitFrom(Tail(s), sep, Append(parts, piece), <<>>)
  ELSE SplitFrom(Tail(s), sep, parts, Append(piece, Head(s)))

Split(s, sep) == Once(LAMBDA t : SplitFrom(t, sep, <<>>, <<>>), s)

\* sep.join(parts)
RECURSIVE Join(_, _)
Join(sep, parts) ==
  IF parts = <<>> THEN <<>>
  ELSE IF Len(parts) = 1 THEN Head(parts)
  ELSE Head(parts) \o <<sep>> \o Join(sep, Tail(parts))

\* '.'.join(path.split('.')[:-1])
StripLastComponent(path) ==
  Once(LAMBDA parts : Join(".", SubSeq(parts, 1, Len(parts) - 1)), Split(path, "."))

\* os.path.join(a, b) on POSIX paths
PathJoin(a, b) ==
  IF b # <<>> /\ b[1] = "/" THEN b
  ELSE IF a = <<>> \/ a[Len(a)] = "/" THEN a \o b
  ELSE a \o <<"/">> \o b

\* os.path.splitext(path)[1][1:] : the text after the last dot of the last
\* path component, empty when that component has no dot past its start.
RECURSIVE LastIndexFrom(_, _, _)
LastIndexFrom(s, c, i) ==
  IF i = 0 THEN 0
  ELSE IF s[i] = c THEN i
  ELSE LastIndexFrom(s, c, i - 1)

\* str.rfind(c) + 1
LastIndexOf(s, c) == LastIndexFrom(s, c, Len(s))

SplitExt(path) ==
  LET slash == LastIndexOf(path, "/")
      base == SubSeq(path, slash + 1, Len(path))
      dot == LastIndexOf(base, ".")
  IN IF dot <= 1 THEN <<>> ELSE SubSeq(base, dot + 1, Len(base))

\* --------------------------------------------------- bytes.decode() (UTF-8)
Bytes == {97, 169, 195}

RECURSIVE SeqsUpTo(_, _)
SeqsUpTo(S, n) ==
  IF n = 0 THEN {<<>>}
  ELSE LET shorter == SeqsUpTo(S, n - 1)
       IN shorter \cup {Append(s, x) : s \in {t \in shorter : Len(t) = n - 1}, x \in S}

ByteStrings == SeqsUpTo(Bytes, MaxBytes)

\* chr() of the code points the bytes above can encode
Chr(cp) == CASE cp = 97 -> "a" [] cp = 233 -> "é" [] OTHER -> "�"

Hex(b) == CASE b = 169 -> "0xa9" [] b = 195 -> "0xc3" [] OTHER -> "0x61"

\* str() of the small integers that occur in messages
Str(n) ==
  CASE n = 0 -> "0" [] n = 1 -> "1" [] n = 2 -> "2" [] n = 3 -> "3"
    [] n = 4 -> "4" [] n = 5 -> "5" [] OTHER -> "?"

\* Strict UTF-8 decoding of one- and two-byte sequences.  The result is
\* [ok |-> TRUE, text] or [ok |-> FALSE, text = str(UnicodeDecodeError)].
RECURSIVE DecodeFrom(_, _, _)
DecodeFrom(b, i, acc) ==
  LET fail(reason) ==
        [ok |-> FALSE,
         text |-> <<"'utf-8' codec can't decode byte ", Hex(b[i]), " in position ",
                    Str(i - 1), ": ", reason>>]
  IN IF i > Len(b) THEN [ok |-> TRUE, text |-> acc]
     ELSE IF b[i] < 128 THEN DecodeFrom(b, i + 1, Append(acc, Chr(b[i])))
     ELSE IF b[i] < 194 \/ b[i] > 223 THEN fail("invalid start byte")  \* no byte of Bytes is above 223
     ELSE IF i = Len(b) THEN fail("unexpected end of data")
     ELSE IF b[i + 1] < 128 \/ b[i + 1] > 191 THEN fail("invalid continuation byte")
     ELSE DecodeFrom(b, i + 2,
                     Append(acc, Chr((b[i] - 192) * 64 + (b[i + 1] - 128))))

Decode(b) == DecodeFrom(b, 1, <<>>)

\* ------------------------------------------------------------- file system
\* What the dialogs can return and what os.walk finds: two directories that
\* contain matching, non-matching, upper-case and multi-dot names.
Dir_r == <<"/", "r">>
Dir_q == <<"/", "q", ".", "d">>
Dir_qs == <<"/", "q", ".", "d", "/", "s">>

\* os.listdir of a directory: its sub-directories and its files
Listing(d) ==
  CASE d = Dir_r ->
         [dirs |-> <<>>,
          files |-> << <<"a", ".", "m", "d">>, <<"b", ".", "m", "d">>,
                       <<"c", ".", "t", "x", "t">> >>]
    [] d = Dir_q ->
         [dirs |-> << <<"s">> >>,
          files |-> << <<"B", ".", "M", "D">>, <<"a", "m", "d">> >>]
    [] d = Dir_qs ->
         [dirs |-> <<>>, files |-> << <<"n", ".", "b", ".", "m", "d">> >>]
    [] OTHER -> [dirs |-> <<>>, files |-> <<>>]

Directories == {Dir_r, Dir_q}

\* os.walk(top), top-down, flattened to the (root, file) pairs that the two
\* nested for loops of convert_bulk_files visit, in visiting order.
RECURSIVE Walk(_)
RECURSIVE WalkAll(_, _)
Walk(top) ==
  [i \in 1..Len(Listing(top).files) |-> [root |-> top, file |-> Listing(top).files[i]]]
    \o WalkAll(top, Listing(top).dirs)
WalkAll(top, dirs) ==
  IF dirs = <<>> THEN <<>>
  ELSE Walk(PathJoin(top, Head(dirs))) \o WalkAll(top, Tail(dirs))

AllFiles ==
  UNION {{PathJoin(e.root, e.file) : e \in Range(Walk(d))} : d \in Directories}

\* ------------------------------------------------------------------- state
VARIABLES
  bulk_conversion,   \* FileConverter.bulk_conversion
  input_file,        \* FileConverter.input_file (NoAttr until first selection)
  input_directory,   \* FileConverter.input_directory (NoAttr until first selection)
  input_format,      \* input_format_combo.currentText()
  output_format,     \* output_format_combo.currentText()
  pdf_engine,        \* FileConverter.pdf_engine
  progress_bar,      \* progress_bar.value()
  output_text,       \* the messages appended to output_text
  modal,             \* stack of open QMessageBox dialogs, innermost last
  thread,            \* FileConverter.thread: index of the latest job, 0 if none
  jobs,              \* every ConversionThread created so far
  queue,             \* signal emissions posted to the GUI thread, not yet delivered
  ctl,               \* where the GUI thread is: its event loop or the bulk loop
  handled            \* per job, the emissions whose slot has been called, in call order

vars ==
  <<bulk_conversion, input_file, input_directory, input_format, output_format,
    pdf_engine, progress_bar, output_text, modal, thread, jobs, queue, ctl, handled>>

gui == <<bulk_conversion, input_file, input_directory, input_format, output_format,
         pdf_engine, progress_bar, output_text, modal, thread, ctl, handled>>

\* --------------------------------------------------------- ConversionThread
\* The four signals of ConversionThread and their arguments.
Progress(v) == [sig |-> "progress", value |-> v, success |-> FALSE, text |-> <<>>]
Finished(b) == [sig |-> "finished", value |-> 0, success |-> b, text |-> <<>>]
Error(t) == [sig |-> "error", value |-> 0, success |-> FALSE, text |-> t]
Output(t) == [sig |-> "output", value |-> 0, success |-> FALSE, text |-> t]

\* ConversionThread.__init__, plus the locals of run() and the bookkeeping of
\* the model: pc is the position of run(), proc the state of the external
\* process, emitted the emissions so far, run the bulk run that created the
\* job (0: created by convert_single_file).
NewJob(inp, outp, inf, outf, engine, run) ==
  [input_file |-> inp, output_file |-> outp, input_format |-> inf,
   output_format |-> outf, pdf_engine |-> engine,
   pc |-> "start", command |-> <<>>, proc |-> "none", returncode |-> 0,
   stdout |-> <<>>, stderr |-> <<>>, exc |-> <<>>, emitted |-> <<>>, run |-> run]

\* list.insert(1, x)
Insert1(list, x) == <<Head(list), x>> \o Tail(list)

\* Variant of BuildCommand: the engine argument is inserted for every format.
BuildCommand_AlwaysEngine(input_file_, output_file_, input_format_, output_format_, pdf_engine_) ==
  Insert1(<< <<"pandoc">>, <<"-f">>, input_format_, <<"-t">>, output_format_,
             <<"-o">>, output_file_, input_file_ >>,
          <<"--pdf-engine=">> \o pdf_engine_)

\* The argument vector built by run(), lines 25-28.
BuildCommand(input_file_, output_file_, input_format_, output_format_, pdf_engine_) ==
  LET command == << <<"pandoc">>, <<"-f">>, input_format_, <<"-t">>, output_format_,
                    <<"-o">>, output_file_, input_file_ >>
  IN IF output_format_ = PDF
     THEN Insert1(command, <<"--pdf-engine=">> \o pdf_engine_)
     ELSE command

\* repr() of a list of str
RECURSIVE ReprItems(_)
ReprItems(list) ==
  IF list = <<>> THEN <<>>
  ELSE <<"'">> \o Head(list) \o <<"'">>
         \o (IF Len(list) > 1 THEN <<", ">> ELSE <<>>) \o ReprItems(Tail(list))

Repr(list) == <<"[">> \o ReprItems(list) \o <<"]">>

\* str(subprocess.CalledProcessError(returncode, command, output=stderr)):
\* the message names the command and the status; the output is not part of it.
CalledProcessErrorStr(returncode, command) ==
  IF returncode < 0
  THEN <<"Command '">> \o Repr(command) \o <<"' died with <Signals.SIGKILL: 9>.">>
  ELSE <<"Command '">> \o Repr(command)
         \o <<"' returned non-zero exit status ", Str(returncode), ".">>

\* str() of the OSError raised by subprocess.Popen when pandoc cannot be run
LaunchErrors ==
  { <<"[Errno 2] No such file or directory: 'pandoc'">>,
    <<"[Errno 13] Permission denied: 'pandoc'">> }

\* What a process can leave behind when it terminates.
ExitStatuses == {0, 1, -9}
AllOutcomes ==
  [returncode : ExitStatuses, stdout : ByteStrings, stderr : ByteStrings]

\* signal.emit(...) from the worker, which then goes on at pc: the receiver
\* lives in the GUI thread, so the call is posted to that thread's event queue.
Emit(j, n, pc) ==
  /\ jobs' = [jobs EXCEPT ![j].emitted = Append(@, n), ![j].pc = pc]
  /\ queue' = Append(queue, [job |-> j, n |-> n])

\* Variant of Launch: the midpoint is emitted before Popen is called.
Launch_ProgressFirst(j, errors) ==
  /\ jobs[j].pc = "start"
  /\ LET job == jobs[j]
         command == BuildCommand(job.input_file, job.output_file, job.input_format,
                                 job.output_format, job.pdf_engine)
         sent == Append(job.emitted, Progress(50))
     IN \/ jobs' = [jobs EXCEPT ![j].pc = "communicate", ![j].command = command,
                                ![j].proc = "alive", ![j].emitted = sent]
        \/ \E msg \in errors :
             jobs' = [jobs EXCEPT ![j].pc = "except", ![j].command = command,
                                 ![j].exc = msg, ![j].emitted = sent]
  /\ queue' = Append(queue, [job |-> j, n |-> Progress(50)])
  /\ UNCHANGED gui

\* run(), lines 25-30: build the command and launch the process; Popen
\* raises when pandoc cannot be run.
Launch(j, errors) ==
  /\ jobs[j].pc = "start"
  /\ LET job == jobs[j]
         command == BuildCommand(job.input_file, job.output_file, job.input_format,
                                 job.output_format, job.pdf_engine)
     IN \/ jobs' = [jobs EXCEPT ![j].pc = "launched", ![j].command = command,
                                ![j].proc = "alive"]
        \/ \E msg \in errors :
             jobs' = [jobs EXCEPT ![j].pc = "except", ![j].command = command,
                                 ![j].exc = msg]
  /\ UNCHANGED <<queue, gui>>

\* run(), line 31: self.progress.emit(50)
EmitMidpoint(j) ==
  /\ jobs[j].pc = "launched"
  /\ Emit(j, Progress(50), "communicate")
  /\ UNCHANGED gui

\* The external process terminates, leaving its exit status and its streams.
ProcessExit(j, outcomes) ==
  /\ jobs[j].proc = "alive"
  /\ \E o \in outcomes :
       jobs' = [jobs EXCEPT ![j].proc = "exited", ![j].returncode = o.returncode,
                            ![j].stdout = o.stdout, ![j].stderr = o.stderr]
  /\ UNCHANGED <<queue, gui>>

\* run(), lines 32-35: communicate() returns once the process has terminated;
\* a non-zero status raises CalledProcessError.
Communicate(j) ==
  /\ jobs[j].pc = "communicate"
  /\ jobs[j].proc = "exited"
  /\ jobs' = IF jobs[j].returncode # 0
             THEN [jobs EXCEPT ![j].pc = "except",
                     ![j].exc = CalledProcessErrorStr(jobs[j].returncode,
                                                      jobs[j].command)]
             ELSE [jobs EXCEPT ![j].pc = "emit100"]
  /\ UNCHANGED <<queue, gui>>

\* run(), line 37: self.progress.emit(100)
EmitCompletion(j) ==
  /\ jobs[j].pc = "emit100"
  /\ Emit(j, Progress(100), "decode")
  /\ UNCHANGED gui

\* run(), line 38: self.output.emit(stdout.decode()); decode() raises
\* UnicodeDecodeError on bytes that are not UTF-8.
EmitOutput(j) ==
  /\ jobs[j].pc = "decode"
  /\ LET d == Decode(jobs[j].stdout)
     IN IF d.ok
        THEN Emit(j, Output(d.text), "emitTrue")
        ELSE /\ jobs' = [jobs EXCEPT ![j].pc = "except", ![j].exc = d.text]
             /\ UNCHANGED queue
  /\ UNCHANGED gui

\* run(), line 39: self.finished.emit(True)
EmitFinishedTrue(j) ==
  /\ jobs[j].pc = "emitTrue"
  /\ Emit(j, Finished(TRUE), "done")
  /\ UNCHANGED gui

\* Variant of EmitError: the handler returns without emitting finished.
EmitError_NoFinished(j) ==
  /\ jobs[j].pc = "except"
  /\ Emit(j, Error(jobs[j].exc), "done")
  /\ UNCHANGED gui

\* run(), lines 40-41: except Exception as e: self.error.emit(str(e))
EmitError(j) ==
  /\ jobs[j].pc = "except"
  /\ Emit(j, Error(jobs[j].exc), "emitFalse")
  /\ UNCHANGED gui

\* run(), line 42: self.finished.emit(False)
EmitFinishedFalse(j) ==
  /\ jobs[j].pc = "emitFalse"
  /\ Emit(j, Finished(FALSE), "done")
  /\ UNCHANGED gui

\* QThread.isFinished(): run() has returned.
IsFinished(j) == jobs[j].pc \in {"done", "released"}

\* The worker thread of job j has been started and run() has not returned.
IsRunning(j) == ~IsFinished(j)

\* The external process of job j is alive.
ProcessAlive(j) == jobs[j].proc = "alive"

JobIds == 1..Len(jobs)

\* ------------------------------------------------------------ FileConverter
\* The GUI thread is in its event loop (pc = "idle") or inside the for loops
\* of convert_bulk_files (pc = "loop": between two files; pc = "wait": inside
\* self.thread.wait()).  todo holds the files the loops have not visited yet.
\* dir, the formats and run stay as the last bulk run set them; run is the
\* index of the first job the run could create, 0 before the first bulk run.
Idle == [pc |-> "idle", todo |-> <<>>, dir |-> <<>>, input_format |-> <<>>,
         output_format |-> <<>>, run |-> 0]

\* A QMessageBox opened by a slot of job j (0: by a user action).
Box(kind, j) == [kind |-> kind, job |-> j]

\* The main window takes input: the GUI thread is in the event loop, no modal
\* dialog is open, and the posted emissions have been delivered (the event
\* loop sends the posted events before it reads the user's input).
UserCanAct == ctl.pc = "idle" /\ modal = <<>> /\ queue = <<>>

\* set_pdf_engine(engine)
set_pdf_engine(engines) ==
  /\ UserCanAct
  /\ \E e \in engines : pdf_engine' = e
  /\ UNCHANGED <<bulk_conversion, input_file, input_directory, input_format,
                 output_format, progress_bar, output_text, modal, thread, jobs,
                 queue, ctl, handled>>

\* The user picks an entry of output_format_combo.
SelectOutputFormat(formats) ==
  /\ UserCanAct
  /\ \E f \in formats : output_format' = f
  /\ UNCHANGED <<bulk_conversion, input_file, input_directory, input_format,
                 pdf_engine, progress_bar, output_text, modal, thread, jobs,
                 queue, ctl, handled>>

\* toggle_bulk_conversion(checked): the menu action is checkable, so checked
\* is the negation of the current flag.
toggle_bulk_conversion ==
  /\ UserCanAct
  /\ bulk_conversion' = ~bulk_conversion
  /\ UNCHANGED <<input_file, input_directory, input_format, output_format,
                 pdf_engine, progress_bar, output_text, modal, thread, jobs,
                 queue, ctl, handled>>

\* detect_file_type(): the combo box follows the extension when
\* mimetypes.guess_type knows the file and the extension is supported;
\* otherwise a warning is shown.  Result: <<input format, boxes opened>>.
detect_file_type(path, mime_type_known) ==
  LET file_extension == Lower(SplitExt(path))
  IN IF mime_type_known /\ file_extension \in Range(SUPPORTED_INPUT_FORMATS)
     THEN <<file_extension, <<>> >>
     ELSE <<input_format, <<Box("warning", 0)>> >>

\* mimetypes.guess_type(path)[0] is not None: a path without extension has no
\* type; for the others it depends on the tables of the platform.
MimeTypeKnown(path) == IF SplitExt(path) = <<>> THEN {FALSE} ELSE BOOLEAN

\* select_file(): the dialog returns one of the given paths; <<>> among them
\* is the '' of a cancelled dialog.
select_file(files, dirs) ==
  /\ UserCanAct
  /\ IF bulk_conversion
     THEN /\ \E d \in dirs : input_directory' = d
          /\ UNCHANGED <<input_file, input_format, modal>>
     ELSE \E f \in files :
            /\ input_file' = f
            /\ IF f # <<>>
               THEN \E known \in MimeTypeKnown(f) :
                      /\ input_format' = detect_file_type(f, known)[1]
                      /\ modal' = modal \o detect_file_type(f, known)[2]
               ELSE UNCHANGED <<input_format, modal>>
            /\ UNCHANGED input_directory
  /\ UNCHANGED <<bulk_conversion, output_format, pdf_engine, progress_bar,
                 output_text, thread, jobs, queue, ctl, handled>>

\* convert_single_file(): warn when nothing is selected or the save dialog is
\* cancelled; otherwise create the job, connect its signals, start it and
\* return to the event loop.
convert_single_file ==
  /\ UserCanAct
  /\ ~bulk_conversion
  /\ IF input_file = NoAttr \/ input_file = <<>>
     THEN /\ modal' = Append(modal, Box("warning", 0))
          /\ UNCHANGED <<progress_bar, thread, jobs>>
     ELSE LET joined_input_file == StripLastComponent(input_file)
              suggested == joined_input_file \o <<".">> \o output_format
          IN \E output_file \in {<<>>, suggested} :
               IF output_file = <<>>
               THEN /\ modal' = Append(modal, Box("warning", 0))
                    /\ UNCHANGED <<progress_bar, thread, jobs>>
               ELSE /\ Len(jobs) < MaxJobs
                    /\ progress_bar' = 0
                    /\ jobs' = Append(jobs, NewJob(input_file, output_file, input_format,
                                                   output_format, pdf_engine, 0))
                    /\ thread' = Len(jobs) + 1
                    /\ UNCHANGED modal
  /\ UNCHANGED <<bulk_conversion, input_file, input_directory, input_format,
                 output_format, pdf_engine, output_text, queue, ctl, handled>>

\* Variant of Matches: the name is compared as it is, without lower().
Matches_CaseSensitive(file, fmt) == EndsWith(file, <<".">> \o fmt)

\* file.lower().endswith(f'.{input_format}')
Matches(file, fmt) == EndsWith(Lower(file), <<".">> \o fmt)

\* The entries of a walk that the if of the bulk loop accepts.
RECURSIVE Matching(_, _)
Matching(walk, fmt) ==
  IF walk = <<>> THEN <<>>
  ELSE (IF Matches(Head(walk).file, fmt) THEN <<Head(walk)>> ELSE <<>>)
         \o Matching(Tail(walk), fmt)

\* The walk from its first accepted entry on (empty when there is none).
RECURSIVE SkipToMatch(_, _)
SkipToMatch(walk, fmt) ==
  IF walk = <<>> \/ Matches(Head(walk).file, fmt) THEN walk
  ELSE SkipToMatch(Tail(walk), fmt)

\* convert_bulk_files(), lines 218-221: the paths of the job of one file.
BulkInputFile(e) == PathJoin(e.root, e.file)
BulkOutputFile(e, outf) ==
  LET joined_input_file == StripLastComponent(BulkInputFile(e))
  IN Once(LAMBDA name : PathJoin(e.root, name), joined_input_file \o <<".">> \o outf)

\* convert_bulk_files(), lines 207-214: warn when no directory is selected;
\* otherwise read the formats, reset the bar and enter the loops.
convert_bulk_files ==
  /\ UserCanAct
  /\ bulk_conversion
  /\ IF input_directory = NoAttr \/ input_directory = <<>>
     THEN /\ modal' = Append(modal, Box("warning", 0))
          /\ UNCHANGED <<progress_bar, ctl>>
     ELSE /\ Len(jobs) + Len(Matching(Walk(input_directory), input_format)) <= MaxJobs
          /\ progress_bar' = 0
          /\ ctl' = [pc |-> "loop", todo |-> Walk(input_directory),
                     dir |-> input_directory, input_format |-> input_format,
                     output_format |-> output_format, run |-> Len(jobs) + 1]
          /\ UNCHANGED modal
  /\ UNCHANGED <<bulk_conversion, input_file, input_directory, input_format,
                 output_format, pdf_engine, output_text, thread, jobs, queue, handled>>

\* convert_bulk_files(), lines 215-229: the loops reach the next accepted
\* file, create its job, connect its signals and start it.
BulkStartJob ==
  /\ ctl.pc = "loop"
  /\ LET rest == SkipToMatch(ctl.todo, ctl.input_format)
     IN /\ rest # <<>>
        /\ jobs' = Append(jobs, NewJob(BulkInputFile(Head(rest)),
                                       BulkOutputFile(Head(rest), ctl.output_format),
                                       ctl.input_format, ctl.output_format,
                                       pdf_engine, ctl.run))
        /\ thread' = Len(jobs) + 1
        /\ ctl' = [ctl EXCEPT !.pc = "wait", !.todo = Tail(rest)]
  /\ UNCHANGED <<bulk_conversion, input_file, input_directory, input_format,
                 output_format, pdf_engine, progress_bar, output_text, modal,
                 queue, handled>>

\* Variant of BulkWait: the loop does not wait for the worker.
BulkWait_NoWait ==
  /\ ctl.pc = "wait"
  /\ ctl' = [ctl EXCEPT !.pc = "loop"]
  /\ UNCHANGED <<bulk_conversion, input_file, input_directory, input_format,
                 output_format, pdf_engine, progress_bar, output_text, modal,
                 thread, jobs, queue, handled>>

\* Variant of BulkWait: a failed job ends the loops.
BulkWait_Abort ==
  /\ ctl.pc = "wait"
  /\ IsFinished(thread)
  /\ ctl' = [ctl EXCEPT !.pc = "loop",
                        !.todo = IF Finished(FALSE) \in Range(jobs[thread].emitted)
                                 THEN <<>> ELSE @]
  /\ UNCHANGED <<bulk_conversion, input_file, input_directory, input_format,
                 output_format, pdf_engine, progress_bar, output_text, modal,
                 thread, jobs, queue, handled>>

\* convert_bulk_files(), line 230: self.thread.wait() returns.
BulkWait ==
  /\ ctl.pc = "wait"
  /\ IsFinished(thread)
  /\ ctl' = [ctl EXCEPT !.pc = "loop"]
  /\ UNCHANGED <<bulk_conversion, input_file, input_directory, input_format,
                 output_format, pdf_engine, progress_bar, output_text, modal,
                 thread, jobs, queue, handled>>

\* convert_bulk_files(), line 231: the loops are exhausted.
BulkEnd ==
  /\ ctl.pc = "loop"
  /\ SkipToMatch(ctl.todo, ctl.input_format) = <<>>
  /\ progress_bar' = 100
  /\ ctl' = [ctl EXCEPT !.pc = "idle", !.todo = <<>>]
  /\ UNCHANGED <<bulk_conversion, input_file, input_directory, input_format,
                 output_format, pdf_engine, output_text, modal, thread, jobs,
                 queue, handled>>

\* A job whose worker has finished, whose emissions have all been delivered
\* and whose message boxes are closed takes no further part in the program.
\* Its record is reduced to its run and pc = "released", and its delivery log
\* is emptied, so that states differing only in such records are one state.
Settled(j, js, q, m) ==
  /\ js[j].pc = "done"
  /\ \A i \in 1..Len(q) : q[i].job # j
  /\ \A i \in 1..Len(m) : m[i].job # j

Released(run) ==
  [NewJob(<<>>, <<>>, <<>>, <<>>, <<>>, run) EXCEPT !.pc = "released"]

Release(js, q, m) ==
  [j \in 1..Len(js) |-> IF Settled(j, js, q, m) THEN Released(js[j].run) ELSE js[j]]

ReleaseLog(h, js, q, m) ==
  [j \in 1..MaxJobs |-> IF j <= Len(js) /\ Settled(j, js, q, m) THEN <<>> ELSE h[j]]

\* The event loop (the main one, or the one a modal dialog runs) delivers the
\* oldest posted emission to its slot: update_progress, append_output,
\* on_conversion_error or on_conversion_finished.  The last two open a
\* message box and go on when it is closed.
Deliver ==
  /\ ctl.pc = "idle"
  /\ queue # <<>>
  /\ LET e == Head(queue)
         delivered == [handled EXCEPT ![e.job] = Append(@, e.n)]
         boxes == IF e.n.sig \in {"error", "finished"}
                  THEN Append(modal, Box(e.n.sig, e.job))
                  ELSE modal
     IN /\ queue' = Tail(queue)
        /\ modal' = boxes
        /\ progress_bar' = IF e.n.sig = "progress" THEN e.n.value ELSE progress_bar
        /\ output_text' = IF e.n.sig = "output" THEN Append(output_text, e.n.text)
                          ELSE output_text
        /\ handled' = ReleaseLog(delivered, jobs, Tail(queue), boxes)
        /\ jobs' = Release(jobs, Tail(queue), boxes)
  /\ UNCHANGED <<bulk_conversion, input_file, input_directory, input_format,
                 output_format, pdf_engine, thread, ctl>>

\* The user closes the innermost message box; on_conversion_finished then
\* resets the bar (line 241).
CloseBox ==
  /\ ctl.pc = "idle"
  /\ modal # <<>>
  /\ modal' = SubSeq(modal, 1, Len(modal) - 1)
  /\ progress_bar' = IF modal[Len(modal)].kind = "finished" THEN 0 ELSE progress_bar
  /\ jobs' = Release(jobs, queue, SubSeq(modal, 1, Len(modal) - 1))
  /\ handled' = ReleaseLog(handled, jobs, queue, SubSeq(modal, 1, Len(modal) - 1))
  /\ UNCHANGED <<bulk_conversion, input_file, input_directory, input_format,
                 output_format, pdf_engine, output_text, thread, queue, ctl>>

\* FileConverter.__init__ and initUI
Init ==
  /\ bulk_conversion = FALSE
  /\ input_file = NoAttr
  /\ input_directory = NoAttr
  /\ input_format = SUPPORTED_INPUT_FORMATS[1]
  /\ output_format = SUPPORTED_OUTPUT_FORMATS[1]
  /\ pdf_engine = <<"xelatex">>
  /\ progress_bar = 0
  /\ output_text = <<>>
  /\ modal = <<>>
  /\ thread = 0
  /\ jobs = <<>>
  /\ queue = <<>>
  /\ ctl = Idle
  /\ handled = [j \in 1..MaxJobs |-> <<>>]

\* ------------------------------------------- the application, two threads
\* Single-file and bulk conversions side by side, with one file, one
\* directory, and a process that succeeds, fails or cannot be launched.
AppFiles == { <<"/", "r", "/", "c", ".", "t", "x", "t">> }
AppDirectories == {Dir_r}
AppLaunchErrors == { <<"[Errno 2] No such file or directory: 'pandoc'">> }
AppOutcomes ==
  { [returncode |-> 0, stdout |-> <<97>>, stderr |-> <<>>],
    [returncode |-> 1, stdout |-> <<>>, stderr |-> <<97>>] }

Next ==
  \/ toggle_bulk_conversion
  \/ select_file(AppFiles, AppDirectories)
  \/ convert_single_file
  \/ convert_bulk_files
  \/ BulkStartJob
  \/ BulkWait
  \/ BulkEnd
  \/ Deliver
  \/ CloseBox
  \/ \E j \in JobIds : Launch(j, AppLaunchErrors)
  \/ \E j \in JobIds : EmitMidpoint(j)
  \/ \E j \in JobIds : ProcessExit(j, AppOutcomes)
  \/ \E j \in JobIds : Communicate(j)
  \/ \E j \in JobIds : EmitCompletion(j)
  \/ \E j \in JobIds : EmitOutput(j)
  \/ \E j \in JobIds : EmitFinishedTrue(j)
  \/ \E j \in JobIds : EmitError(j)
  \/ \E j \in JobIds : EmitFinishedFalse(j)

Spec == Init /\ [][Next]_vars

\* ------------------------------------------------ bulk runs, every setting
\* The user chooses formats, engine and directory freely and converts in
\* bulk mode only, so the jobs run one after the other.
BulkFiles ==
  { <<"/", "r", "/", "a", ".", "m", "d">>, <<"/", "r", "/", "c", ".", "t", "x", "t">> }
BulkOutcomes ==
  AppOutcomes \cup { [returncode |-> 0, stdout |-> <<195>>, stderr |-> <<>>] }

NextBulk ==
  \/ set_pdf_engine(Range(SUPPORTED_PDF_ENGINES))
  \/ SelectOutputFormat(Range(SUPPORTED_OUTPUT_FORMATS))
  \/ toggle_bulk_conversion
  \/ select_file(BulkFiles \cup {<<>>}, Directories \cup {<<>>})
  \/ convert_bulk_files
  \/ BulkStartJob
  \/ BulkWait
  \/ BulkEnd
  \/ Deliver
  \/ CloseBox
  \/ \E j \in JobIds : Launch(j, LaunchErrors)
  \/ \E j \in JobIds : EmitMidpoint(j)
  \/ \E j \in JobIds : ProcessExit(j, BulkOutcomes)
  \/ \E j \in JobIds : Communicate(j)
  \/ \E j \in JobIds : EmitCompletion(j)
  \/ \E j \in JobIds : EmitOutput(j)
  \/ \E j \in JobIds : EmitFinishedTrue(j)
  \/ \E j \in JobIds : EmitError(j)
  \/ \E j \in JobIds : EmitFinishedFalse(j)

SpecBulk == Init /\ [][NextBulk]_vars

\* The GUI thread keeps running its loops, the worker thread it waits for
\* keeps running, and every external process terminates.  In a bulk run the
\* only threads that can take a step are the GUI thread inside the loops or
\* the one worker it waits for, so one fairness condition covers both.
WorkerStep(j) ==
  /\ \/ Launch(j, LaunchErrors)
     \/ EmitMidpoint(j)
     \/ ProcessExit(j, BulkOutcomes)
     \/ Communicate(j)
     \/ EmitCompletion(j)
     \/ EmitOutput(j)
     \/ EmitFinishedTrue(j)
     \/ EmitError(j)
     \/ EmitFinishedFalse(j)

BulkProgress ==
  \/ BulkStartJob
  \/ BulkWait
  \/ BulkEnd
  \/ \E j \in JobIds : WorkerStep(j)

BulkFairness == WF_vars(BulkProgress)

SpecBulkFair == Init /\ [][NextBulk]_vars /\ BulkFairness

\* ------------------------------------------------- one job, every request
\* The state right after convert_single_file has started a job, for every
\* request the controls can produce and every outcome of the process.
InitJob ==
  /\ bulk_conversion = FALSE
  /\ input_file = <<"/", "r", "/", "a", ".", "m", "d">>
  /\ input_directory = NoAttr
  /\ input_format \in Range(SUPPORTED_INPUT_FORMATS)
  /\ output_format \in Range(SUPPORTED_OUTPUT_FORMATS)
  /\ pdf_engine \in Range(SUPPORTED_PDF_ENGINES)
  /\ progress_bar = 0
  /\ output_text = <<>>
  /\ modal = <<>>
  /\ thread = 1
  /\ jobs = << NewJob(input_file, <<"/", "o">>, input_format, output_format, pdf_engine, 0) >>
  /\ queue = <<>>
  /\ ctl = Idle
  /\ handled = [j \in 1..MaxJobs |-> <<>>]

NextJob ==
  \/ \E j \in JobIds : Launch(j, LaunchErrors)
  \/ \E j \in JobIds : EmitMidpoint(j)
  \/ \E j \in JobIds : ProcessExit(j, AllOutcomes)
  \/ \E j \in JobIds : Communicate(j)
  \/ \E j \in JobIds : EmitCompletion(j)
  \/ \E j \in JobIds : EmitOutput(j)
  \/ \E j \in JobIds : EmitFinishedTrue(j)
  \/ \E j \in JobIds : EmitError(j)
  \/ \E j \in JobIds : EmitFinishedFalse(j)

SpecJob == InitJob /\ [][NextJob]_vars

\* ===================================================== properties of a job
\* Number of emissions of one signal in a sequence of emissions.
RECURSIVE Count(_, _)
Count(seq, sig) ==
  IF seq = <<>> THEN 0
  ELSE (IF Head(seq).sig = sig THEN 1 ELSE 0) + Count(Tail(seq), sig)

Values(seq) == {seq[i].value : i \in {k \in 1..Len(seq) : seq[k].sig = "progress"}}

\* run() of job j has returned and its record is still complete.
Done(j) == jobs[j].pc = "done"
ExitedNonZero(j) == jobs[j].proc = "exited" /\ jobs[j].returncode # 0
ExitedZero(j) == jobs[j].proc = "exited" /\ jobs[j].returncode = 0
LaunchFailed(j) == jobs[j].proc = "none" /\ jobs[j].pc \notin {"start", "released"}

\* C3 as claimed: a job whose process exited with a non-zero status reports
\* finished(False), and the detail of its error notification is the captured
\* standard error decoded as text.
Claim_C3 ==
  \A j \in JobIds :
    (Done(j) /\ ExitedNonZero(j)) =>
      /\ jobs[j].emitted[Len(jobs[j].emitted)] = Finished(FALSE)
      /\ \E i \in 1..Len(jobs[j].emitted) :
           jobs[j].emitted[i] = Error(Decode(jobs[j].stderr).text)

\* C4 as claimed: a job whose process exited with status 0 emits progress
\* 100, then the captured standard output decoded as text, then
\* finished(True), and no error notification.
Claim_C4 ==
  \A j \in JobIds :
    (Done(j) /\ ExitedZero(j)) =>
      LET e == jobs[j].emitted
      IN /\ Count(e, "error") = 0
         /\ \E i \in 1..Len(e) - 2 :
              /\ e[i] = Progress(100)
              /\ e[i + 1] = Output(Decode(jobs[j].stdout).text)
              /\ e[i + 2] = Finished(TRUE)

\* C5: when the process cannot be launched the job emits no progress value;
\* it emits exactly an error notification carrying the non-empty message of
\* the launch exception and then finished(False), and then run() returns.
Thm_C5 ==
  \A j \in JobIds :
    LaunchFailed(j) =>
      /\ Count(jobs[j].emitted, "progress") = 0
      /\ jobs[j].exc # <<>>
      /\ \A i \in 1..Len(jobs[j].exc) : jobs[j].exc[i] # ""
      /\ jobs[j].pc \in {"except", "emitFalse", "done"}
      /\ jobs[j].pc = "except" => jobs[j].emitted = <<>>
      /\ jobs[j].pc = "emitFalse" => jobs[j].emitted = <<Error(jobs[j].exc)>>
      /\ jobs[j].pc = "done" =>
           jobs[j].emitted = <<Error(jobs[j].exc), Finished(FALSE)>>

Witness_C5 ==
  \E j \in JobIds :
    /\ Done(j)
    /\ LaunchFailed(j)
    /\ jobs[j].emitted = <<Error(jobs[j].exc), Finished(FALSE)>>

\* An argument of the form --pdf-engine=<...>
IsEngineArg(arg) == arg # <<>> /\ arg[1] = "--pdf-engine="

RECURSIVE WithoutEngineArgs(_)
WithoutEngineArgs(command) ==
  IF command = <<>> THEN <<>>
  ELSE (IF IsEngineArg(Head(command)) THEN <<>> ELSE <<Head(command)>>)
         \o WithoutEngineArgs(Tail(command))

\* C6: the command a job has built contains a --pdf-engine=<engine> argument
\* if and only if the output format is pdf, its value is the job's engine,
\* and the other arguments are pandoc -f <input format> -t <output format>
\* -o <output path> <input path>, in this order.
Thm_C6 ==
  \A j \in JobIds :
    jobs[j].pc \notin {"start", "released"} =>
      LET job == jobs[j]
          c == job.command
      IN /\ (\E i \in 1..Len(c) : IsEngineArg(c[i])) <=> (job.output_format = PDF)
         /\ \A i \in 1..Len(c) :
              IsEngineArg(c[i]) => c[i] = <<"--pdf-engine=">> \o job.pdf_engine
         /\ Len(c) <= 9
         /\ WithoutEngineArgs(c) =
              << <<"pandoc">>, <<"-f">>, job.input_format, <<"-t">>, job.output_format,
                 <<"-o">>, job.output_file, job.input_file >>

Witness_C6 ==
  \E j \in JobIds :
    /\ Done(j)
    /\ jobs[j].output_format = PDF
    /\ jobs[j].input_format = DOCX
    /\ jobs[j].pdf_engine = <<"lualatex">>
    /\ Len(jobs[j].command) = 9

\* C9: finished is emitted only as the last emission of a job and exactly
\* once by the time run() returns; error is emitted exactly once, right
\* before finished, if and only if finished carries False; after a non-zero
\* exit or a launch failure 100 is never emitted; 50 is emitted at most once
\* and only once the process has been launched.
Thm_C9 ==
  \A j \in JobIds :
    jobs[j].pc # "released" =>
      LET e == jobs[j].emitted
          n == Len(e)
      IN /\ Count(e, "finished") = (IF Done(j) THEN 1 ELSE 0)
         /\ Done(j) => e[n].sig = "finished"
         /\ Done(j) => (Count(e, "error") = 1 <=> e[n] = Finished(FALSE))
         /\ Done(j) => (Count(e, "error") = 0 <=> e[n] = Finished(TRUE))
         /\ (Done(j) /\ e[n] = Finished(FALSE)) => e[n - 1].sig = "error"
         /\ (ExitedNonZero(j) \/ LaunchFailed(j)) => 100 \notin Values(e)
         /\ Cardinality({i \in 1..n : e[i] = Progress(50)}) <= 1
         /\ 50 \in Values(e) => jobs[j].proc # "none"

Witness_C9 ==
  \E j \in JobIds :
    /\ Done(j)
    /\ ExitedNonZero(j)
    /\ jobs[j].emitted = <<Progress(50), Error(jobs[j].exc), Finished(FALSE)>>

\* ================================================= properties of bulk runs
InLoop == ctl.pc # "idle"

\* The jobs created by the bulk run that ctl describes, in creation order.
RunJobs == {j \in JobIds : ctl.run # 0 /\ jobs[j].run = ctl.run}

\* The entries of the run's walk that the loops have passed.
Visited ==
  LET walk == Walk(ctl.dir)
  IN SubSeq(walk, 1, Len(walk) - Len(ctl.todo))

Select(walk, fmt, Test(_, _)) == SelectSeq(walk, LAMBDA e : Test(e.file, fmt))

\* The name ends in .F / the lower-cased name ends in .F
EndsInSuffix(file, fmt) == EndsWith(file, <<".">> \o fmt)
EndsInSuffixAnyCase(file, fmt) == EndsWith(Lower(file), <<".">> \o fmt)

\* path with its last Len(.F) characters replaced by .<output format>
ReplaceSuffix(path, fmt, outf) ==
  SubSeq(path, 1, Len(path) - Len(fmt) - 1) \o <<".">> \o outf

\* path names an entry of directory root itself
DirectlyIn(path, root) ==
  /\ Len(path) > Len(root) + 1
  /\ SubSeq(path, 1, Len(root) + 1) = root \o <<"/">>
  /\ \A i \in Len(root) + 2..Len(path) : path[i] # "/"

\* The jobs of the run are, in order, the jobs of the passed files that
\* Test accepts: one job each, with the file's path as input and as output
\* that path with the suffix replaced, in the file's directory.
JobsAre(Test(_, _)) ==
  ctl.run # 0 =>
    LET expected == Select(Visited, ctl.input_format, Test)
    IN /\ Cardinality(RunJobs) = Len(expected)
       /\ \A k \in 1..Len(expected) :
            LET j == ctl.run + k - 1
                e == expected[k]
                path == e.root \o <<"/">> \o e.file
            IN /\ j \in RunJobs
               /\ jobs[j].pc # "released" =>
                    /\ jobs[j].input_file = path
                    /\ jobs[j].input_format = ctl.input_format
                    /\ jobs[j].output_format = ctl.output_format
                    /\ jobs[j].output_file =
                         ReplaceSuffix(path, ctl.input_format, ctl.output_format)
                    /\ DirectlyIn(jobs[j].output_file, e.root)

\* C7 as claimed: the jobs of a bulk run are those of the files whose name
\* ends in .F, and of no other file; each output path is the input path with
\* the trailing .F replaced by .<output format>, in the same directory.
Claim_C7 == JobsAre(EndsInSuffix)

\* C7 amended: the jobs of a bulk run are those of the files whose
\* lower-cased name ends in .F, and of no other file; each output path is the
\* input path with its trailing Len(.F) characters replaced by
\* .<output format>, in the same directory.
Thm_C7 == JobsAre(EndsInSuffixAnyCase)

Witness_C7 ==
  /\ ctl.pc = "idle"
  /\ ctl.dir = Dir_q
  /\ ctl.input_format = MD
  /\ ctl.output_format = HTML
  /\ Cardinality(RunJobs) = 2
  /\ jobs[ctl.run].input_file = <<"/", "q", ".", "d", "/", "B", ".", "M", "D">>
  /\ jobs[ctl.run].output_file = <<"/", "q", ".", "d", "/", "B", ".", "h", "t", "m", "l">>
  /\ jobs[ctl.run + 1].output_file =
       <<"/", "q", ".", "d", "/", "s", "/", "n", ".", "b", ".", "h", "t", "m", "l">>

\* C1: within one bulk run, a job's process has been launched only if the
\* process of every earlier job of the run is not alive; so no two processes
\* of the run are alive at once.
Thm_C1 ==
  \A i, j \in JobIds :
    (i < j /\ jobs[i].run # 0 /\ jobs[i].run = jobs[j].run) =>
      /\ jobs[j].proc # "none" => jobs[i].proc # "alive"
      /\ ~(ProcessAlive(i) /\ ProcessAlive(j))

Witness_C1 ==
  \E i, j \in JobIds :
    /\ i < j
    /\ jobs[i].run # 0
    /\ jobs[i].run = jobs[j].run
    /\ jobs[i].proc = "exited"
    /\ ProcessAlive(j)

\* A job of the run has failed and a later job of the run has run to its end.
FailureThenCompletion ==
  \E i, j \in RunJobs :
    /\ i < j
    /\ Done(i)
    /\ Finished(FALSE) \in Range(jobs[i].emitted)
    /\ Done(j)

\* Once the loops have ended, every accepted file of the walk has its own job
\* and every job of the run has run to its end.
RunComplete ==
  (ctl.pc = "idle" /\ ctl.run # 0) =>
    /\ Cardinality(RunJobs) = Len(Matching(Walk(ctl.dir), ctl.input_format))
    /\ RunJobs = ctl.run..(ctl.run + Cardinality(RunJobs) - 1)
    /\ \A j \in RunJobs : IsFinished(j)

\* C8: a failed job does not end the bulk run: when every process terminates,
\* the loops end, and by then every accepted file, also those after a failed
\* one, has got its own job, which has run to its end.
Thm_C8 == [] RunComplete /\ (InLoop ~> ~InLoop)

Witness_C8 ==
  /\ ctl.pc = "idle"
  /\ ctl.run # 0
  /\ FailureThenCompletion
  /\ Cardinality(RunJobs) = Len(Matching(Walk(ctl.dir), ctl.input_format))

\* ============================================ properties of the application
\* C2 as claimed: at most one worker is running, and at most one external
\* process is alive, in every reachable state.
Claim_C2 ==
  /\ Cardinality({j \in JobIds : IsRunning(j)}) <= 1
  /\ Cardinality({j \in JobIds : ProcessAlive(j)}) <= 1

IsPrefix(s, t) == Len(s) <= Len(t) /\ s = SubSeq(t, 1, Len(s))

\* Inside the loops no emission of a job of the run has been delivered.
NoneDeliveredInLoop == InLoop => \A j \in RunJobs : handled[j] = <<>>

\* The emissions of a job are delivered in the order of their emission.
DeliveredInOrder ==
  \A j \in JobIds : jobs[j].pc # "released" => IsPrefix(handled[j], jobs[j].emitted)

\* The loops end only when every worker of the run has finished, and set the
\* bar to 100.
LoopEnd ==
  (InLoop /\ ~InLoop') =>
    /\ \A j \in RunJobs : IsFinished(j)
    /\ progress_bar' = 100

\* Every emission of every job of the run has been delivered and its slot has
\* returned.
RunHandled == \A j \in RunJobs : jobs[j].pc = "released"

\* When the last slot of a run with at least one job returns, the bar is 0.
BarAfterRun ==
  (~InLoop /\ ~InLoop' /\ RunJobs # {} /\ ~RunHandled /\ RunHandled') =>
    progress_bar' = 0

\* convert_single_file leaves the GUI thread in its event loop while the
\* worker of the new job has not finished.
SingleReturns ==
  (Len(jobs') > Len(jobs) /\ jobs'[Len(jobs')].run = 0) =>
    /\ ctl'.pc = "idle"
    /\ jobs'[Len(jobs')].pc = "start"

\* C10 as claimed: in bulk mode the GUI thread stays in the loops until the
\* last worker has finished; no emission of a job of the run is delivered
\* before the loops have ended and set the bar to 100; the emissions are
\* delivered afterwards in the order of their emission; once all of them are
\* handled after a run with at least one job the bar is 0; a single-file
\* conversion returns without waiting for its worker.
Claim_C10 ==
  [][/\ NoneDeliveredInLoop /\ NoneDeliveredInLoop'
     /\ DeliveredInOrder /\ DeliveredInOrder'
     /\ LoopEnd
     /\ BarAfterRun
     /\ SingleReturns]_vars

====
